---- MODULE Spec2Model ----
(***************************************************************************)
(* State-machine model of the real-time connection manager                 *)
(* (lwc/signalRManagerDev/signalRManagerDev.js, class SignalRManager) and  *)
(* of its client component (lwc/rpRealTimeClientDev/rpRealTimeClientDev.js)*)
(*                                                                         *)
(* JavaScript runs each handler to its next await; every action below is   *)
(* one such run-to-suspension segment.  The third-party transport          *)
(* (signalR.HubConnection), the credential endpoint (beaconAccess), the    *)
(* script loader and the timers are the environment: their outcomes are    *)
(* chosen nondeterministically.                                            *)
(***************************************************************************)
EXTENDS Integers, Sequences, FiniteSets, TLC

\* ---------------------------------------------------------------- bounds
\* transport objects alive at once (a transport that is Disconnected and that
\* nothing refers to any more is garbage: its identifier is used again)
MaxTransports == 1
\* asynchronous invocations (initialize / initializeConnection chains) in
\* flight at once
MaxCalls == 2
\* renderedCallback invocations of the client component
MaxRenders == 2
\* timers pending at once
MaxTimers == 2
\* stop() invocations in one behaviour
MaxStops == 1
\* callbacks that callers other than the component register with on()
MaxHandlers == 3

\* ------------------------------------------------------ program constants
\* initializeConnection(retryCount = 0, maxRetries = 3, retryDelay = 2000)
maxRetries == 3
maxReconnectAttempts == 10
baseReconnectDelay == 1000
maxReconnectDelay == 30000
\* retryConnection: retryInterval = 5000 + Math.random() * 10000
retryIntervalBase == 5000

Transports == 1..MaxTransports
Calls == 1..MaxCalls
TimerIds == 1..MaxTimers

\* setupEventHandlers registers one closure under each of these names, in
\* this order
ClientEvents ==
    << "CallStatusChanged", "UserStatusUpdate", "UserDisconnectMessage",
       "RPBookmarkTriggered", "RCTranscription", "FormDataExtracted",
       "connection_status", "error" >>

\* disconnectedCallback calls off(name) for each of these names
TeardownEvents ==
    << "CallStatusChanged", "UserStatusUpdate", "UserDisconnectMessage",
       "RPBookmarkTriggered", "RCTranscription", "DetectedQuestions",
       "connection_status", "error" >>

Range(s) == { s[i] : i \in 1..Len(s) }

EventNames == Range(ClientEvents) \cup Range(TeardownEvents)

\* the callbacks of the other callers: << 0, name of the function >>
HandlerNames == << "h1", "h2", "h3", "h4", "h5" >>

Handlers == { << 0, HandlerNames[i] >> : i \in 1..MaxHandlers }

\* the event names the other callers use: one the component uses too, and one
\* it registers nothing under
CallerEvents == { "CallStatusChanged", "DetectedQuestions" }

\* payloads a frame may carry
Payloads == { "p1", "p2" }

\* what JSON.parse(await beaconAccess()) may yield: data with or without
\* connectionUrl / accessToken; the call may also throw
BeaconResults ==
    { [throws |-> FALSE, url |-> TRUE,  token |-> TRUE],
      [throws |-> FALSE, url |-> FALSE, token |-> TRUE],
      [throws |-> FALSE, url |-> TRUE,  token |-> FALSE],
      [throws |-> FALSE, url |-> FALSE, token |-> FALSE],
      [throws |-> TRUE,  url |-> FALSE, token |-> FALSE] }

\* ---------------------------------------------------------------- state
VARIABLES
    \* fields of SignalRManager (0 stands for null)
    instance,           \* static SignalRManager.instance: manager object id, or 0
    connection,         \* transport id or 0
    isInitialized,
    websocket,          \* "null": the field is never assigned
    isConnecting,
    isReconnecting,
    retryTimeoutId,     \* timer id or 0
    reconnectAttempts,
    eventHandlers,      \* Map: event name -> insertion-ordered Set of callbacks
    \* the transports (signalR.HubConnection objects)
    tstate,             \* per transport: "Unbuilt", "Disconnected", "Connecting",
                        \* "Connected", "Reconnecting", "Stopping", "StoppingStart"
    tmethods,           \* per transport, per event name: callbacks registered with on()
    \* the event loop
    timers,             \* pending setTimeout callbacks: id -> [kind]
    calls,              \* the asynchronous invocations and where each is suspended
    stopCall,           \* the stop() invocation in flight, or idle
    stops,              \* stop() invocations so far
    \* the client component
    renders,            \* renderedCallback invocations so far
    \* observation
    event               \* what the step just taken let its caller observe

vars == << instance, connection, isInitialized, websocket, isConnecting, isReconnecting,
           retryTimeoutId, reconnectAttempts, eventHandlers, tstate, tmethods,
           timers, calls, stopCall, stops, renders, event >>

\* ------------------------------------------------------------- helpers
NoRegs == [ e \in EventNames |-> << >> ]

EmptyMap == [ e \in {} |-> << >> ]

\* an invocation slot that is not in use
FreeCall ==
    [ kind |-> "free", pc |-> "idle", retryCount |-> 0, starts |-> 0, t |-> 0,
      render |-> 0 ]

\* op: "none", or
\*   "resolved": an invocation returned; kind, how, starts, icRet (what
\*               initializeConnection returned: 0 null, -2 not called) and ret
\*               (what the caller got: transport id, 0 null, -1 rejection);
\*   "frame":    a frame was received; name, payload, the callbacks invoked and
\*               the envelopes published;
\*   "stopped":  stop() returned;
\*   "scheduled": a handler called setTimeout;
\*   "on", "off": on(name, callback) or off(name, callback) was called; how is
\*               "threw", "returned" (the early return of off) or "done", and
\*               invoked holds the callback (empty: off(name) without one).
\* delay: the delay of the timer the step scheduled (0: it scheduled none)
NoEvent ==
    [ op |-> "none", kind |-> "none", how |-> "none", starts |-> 0,
      icRet |-> -2, ret |-> -2, name |-> "none", payload |-> "none",
      invoked |-> << >>, published |-> << >>, delay |-> 0 ]

Contains(s, x) == \E i \in 1..Len(s) : s[i] = x

Without(s, x) == SelectSeq(s, LAMBDA y : y # x)

HasFreeCall == \E c \in Calls : calls[c].kind = "free"

NextCall == CHOOSE c \in Calls : calls[c].kind = "free" /\
                \A d \in Calls : calls[d].kind = "free" => c <= d

MapPut(m, k, v) == [ x \in (DOMAIN m) \cup {k} |-> IF x = k THEN v ELSE m[x] ]

MapDel(m, k) == [ x \in (DOMAIN m) \ {k} |-> m[x] ]

\* ------------------------------------------------ registry (on / off / stop)
\* R = [eh |-> the manager's eventHandlers, tm |-> every transport's registrations]
Regs == [ eh |-> eventHandlers, tm |-> tmethods ]

\* a HubConnection.on that puts the callback in front
transportOnFront(tm, t, eventName, callback) ==
    IF Contains(tm[t][eventName], callback) THEN tm
    ELSE [ tm EXCEPT ![t][eventName] = << callback >> \o @ ]

\* HubConnection.on(name, cb): appended unless this very callback is already there
transportOn(tm, t, eventName, callback) ==
    IF Contains(tm[t][eventName], callback) THEN tm
    ELSE [ tm EXCEPT ![t][eventName] = Append(@, callback) ]

\* HubConnection.off(name, cb)
transportOff(tm, t, eventName, callback) ==
    [ tm EXCEPT ![t][eventName] = Without(@, callback) ]

\* on(eventName, callback), past its "connection not initialized" check
on(R, conn, eventName, callback) ==
    LET old == IF eventName \in DOMAIN R.eh THEN R.eh[eventName] ELSE << >>
        new == IF Contains(old, callback) THEN old ELSE Append(old, callback)
    IN  [ eh |-> MapPut(R.eh, eventName, new),
          tm |-> transportOn(R.tm, conn, eventName, callback) ]

\* on() throws 'Connection not initialized' exactly when this.connection is null
onThrows == connection = 0

\* setupEventHandlers(connection) of render c: one fresh closure <<c, name>> per
\* name of ClientEvents, each registered with on()
RECURSIVE setupFrom(_, _, _, _)
setupFrom(R, conn, c, i) ==
    IF i > Len(ClientEvents) THEN R
    ELSE setupFrom(on(R, conn, ClientEvents[i], << c, ClientEvents[i] >>), conn, c, i + 1)

setupEventHandlers(R, conn, c) == setupFrom(R, conn, c, 1)

\* stop(): connection.off(eventName, handler) for every registry entry, then
\* eventHandlers.clear()
unregisterAll(R, conn) ==
    [ eh |-> EmptyMap,
      tm |-> [ R.tm EXCEPT ![conn] =
                 [ e \in EventNames |->
                     IF e \in DOMAIN R.eh
                     THEN SelectSeq(R.tm[conn][e], LAMBDA h : ~Contains(R.eh[e], h))
                     ELSE R.tm[conn][e] ] ] ]

\* ------------------------------------------------------------- timers
\* T = [timers |-> pending timers, rid |-> retryTimeoutId]
Tim == [ timers |-> timers, rid |-> retryTimeoutId, delay |-> 0 ]

\* Math.random() * 10000 in retryConnection, Math.random() * 1000 in scheduleReconnect
RetryJitters == { 0, 9999 }

ReconnectJitters == { 0, 999 }

\* clearTimeout(id): nothing happens when the timer has fired already
clearTimeout(tm, id) == MapDel(tm, id)

\* setTimeout returns an identifier no pending timer has
FreeTimer(tm) == CHOOSE i \in TimerIds \ DOMAIN tm : \A k \in TimerIds \ DOMAIN tm : i <= k

CanSetTimeout(tm) == (TimerIds \ DOMAIN tm) # {}

\* a retryConnection() that schedules without cancelling
retryConnectionKeeping(T, jitter) ==
    LET id == FreeTimer(T.timers)
    IN  [ timers |-> MapPut(T.timers, id, [ kind |-> "retry" ]),
          rid |-> id,
          delay |-> retryIntervalBase + jitter ]

\* retryConnection(): cancel the timer retryTimeoutId names, schedule a new one
retryConnection(T, jitter) ==
    LET cleared == IF T.rid # 0 THEN clearTimeout(T.timers, T.rid) ELSE T.timers
        id == FreeTimer(cleared)
    IN  [ timers |-> MapPut(cleared, id, [ kind |-> "retry" ]),
          rid |-> id,
          delay |-> retryIntervalBase + jitter ]


\* --------------------------------------------------------- the transport
\* HubConnection.state as the manager reads it
state(ts, t) ==
    IF ts[t] \in { "Stopping", "StoppingStart" } THEN "Disconnecting" ELSE ts[t]

\* HubConnection.stop() is called: a started transport begins to close, a
\* transport whose start() is in flight has that start aborted
transportStop(ts, t) ==
    [ ts EXCEPT ![t] = IF @ \in { "Connected", "Reconnecting" } THEN "Stopping"
                       ELSE IF @ = "Connecting" THEN "StoppingStart"
                       ELSE @ ]

\* the promise of HubConnection.stop() settles: resolved, the transport is
\* Disconnected; rejected, it is left as it was before stop() was called
stopSettled(ts, t, ok) ==
    [ ts EXCEPT ![t] = IF @ \notin { "Stopping", "StoppingStart" } THEN @
                       ELSE IF ok THEN "Disconnected"
                       ELSE IF @ = "Stopping" THEN "Connected"
                       ELSE "Connecting" ]

\* the close callbacks run when a transport that had started is closed
closeFires(ts, t, ok) == ok /\ ts[t] = "Stopping"

\* --------------------------------------------------------------- Init
Init ==
    /\ instance = 1
    /\ connection = 0
    /\ isInitialized = FALSE
    /\ websocket = "null"
    /\ isConnecting = FALSE
    /\ isReconnecting = FALSE
    /\ retryTimeoutId = 0
    /\ reconnectAttempts = 0
    /\ eventHandlers = EmptyMap
    /\ tstate = [ t \in Transports |-> "Unbuilt" ]
    /\ tmethods = [ t \in Transports |-> NoRegs ]
    /\ timers = [ i \in {} |-> 0 ]
    /\ calls = [ c \in Calls |-> FreeCall ]
    /\ stopCall = [ pc |-> "idle", t |-> 0 ]
    /\ stops = 0
    /\ renders = 0
    /\ event = NoEvent

\* ------------------------------------------------------ object lifetime
\* a transport nothing can act on any more: Disconnected, and referred to
\* neither by this.connection nor by a suspended invocation
garbage(t, ts, conn, cs, sc) ==
    /\ ts[t] = "Disconnected"
    /\ t # conn
    /\ \A c \in Calls : cs[c].t # t
    /\ sc.t # t

\* the step's new connection, transports, registrations and invocations, with
\* the garbage transports collected
Commit(conn, ts, R, cs, sc) ==
    /\ connection' = conn
    /\ calls' = cs
    /\ stopCall' = sc
    /\ eventHandlers' = R.eh
    /\ tstate' = [ t \in DOMAIN tstate |->
                     IF garbage(t, ts, conn, cs, sc) THEN "Unbuilt" ELSE ts[t] ]
    /\ tmethods' = [ t \in DOMAIN tstate |->
                       IF garbage(t, ts, conn, cs, sc) \/ ts[t] = "Unbuilt"
                       THEN NoRegs ELSE R.tm[t] ]

\* identifiers a transport built by invocation c may take: an unused one, or
\* that of a transport which is garbage once this.connection is overwritten
Available(c, ts) ==
    { t \in DOMAIN tstate :
        \/ ts[t] = "Unbuilt"
        \/ garbage(t, ts, 0, [ calls EXCEPT ![c] = FreeCall ], stopCall) }

CanBuild(c, ts) == Available(c, ts) # {}

NewTransport(c, ts) == CHOOSE t \in Available(c, ts) : \A u \in Available(c, ts) : t <= u

\* -------------------------------------------- how an invocation resolves
\* The invocation with record r resolves.  icv is what initializeConnection
\* returned (0: null, -2: it was not called); conn is this.connection at that
\* moment.  initialize() then returns this.connection, and renderedCallback
\* calls setupEventHandlers when that is not null.  The timer callbacks do
\* nothing with the result.
resolved(r, icv, how, conn, R) ==
    LET init == r.kind = "initialize"
    IN  [ R |-> IF init /\ conn # 0 THEN setupEventHandlers(R, conn, r.render) ELSE R,
          event |-> [ NoEvent EXCEPT !.op = "resolved", !.kind = r.kind,
                                     !.how = how,
                                     !.starts = r.starts, !.icRet = icv,
                                     !.ret = IF init THEN conn ELSE icv ],
          rec |-> FreeCall ]

\* the invocation stays suspended, with record r
suspended(r, R) == [ R |-> R, event |-> NoEvent, rec |-> r ]

\* initializeConnection(retryCount) is entered by the invocation with record
\* r: behind the isConnecting guard it returns this.connection; past it,
\* isConnecting is set and fetchBeaconAccess is called
initializeConnection(r, retryCount) ==
    IF isConnecting
    THEN resolved(r, connection, "guard", connection, Regs)
    ELSE suspended([ r EXCEPT !.pc = "fetch", !.retryCount = retryCount ], Regs)

\* ------------------------------------------------------------- actions
\* an initialize() that never takes its early return
neverInitialized == FALSE

\* initialize(): if (this.isInitialized) return this.connection
alreadyInitialized == isInitialized

\* renderedCallback of the client component: initialize(this) up to its first
\* await, the call of loadScript (or to its return when the manager is
\* initialized already)
renderedCallback ==
    /\ renders < MaxRenders
    /\ renders' = renders + 1
    /\ LET r == [ FreeCall EXCEPT !.kind = "initialize", !.render = renders + 1 ]
       IN  IF alreadyInitialized
           THEN LET X == resolved(r, -2, "already", connection, Regs)
                IN  /\ Commit(connection, tstate, X.R, calls, stopCall)
                    /\ event' = X.event
           ELSE /\ HasFreeCall
                /\ Commit(connection, tstate, Regs,
                          [ calls EXCEPT ![NextCall] = [ r EXCEPT !.pc = "load" ] ],
                          stopCall)
                /\ event' = NoEvent
    /\ UNCHANGED << isInitialized, websocket, isConnecting, isReconnecting,
                    retryTimeoutId, reconnectAttempts, timers, stops >>
    /\ UNCHANGED instance

\* initialize(): loadScript settles; resolved, initializeConnection() is called;
\* rejected, initialize() rethrows and renderedCallback logs the error
loadScriptDone(c, ok) ==
    /\ calls[c].pc = "load"
    /\ IF ok
       THEN LET X == initializeConnection(calls[c], 0)
            IN  /\ Commit(connection, tstate, X.R, [ calls EXCEPT ![c] = X.rec ],
                          stopCall)
                /\ event' = X.event
                /\ isConnecting' = TRUE
       ELSE /\ Commit(connection, tstate, Regs, [ calls EXCEPT ![c] = FreeCall ],
                      stopCall)
            /\ event' = [ NoEvent EXCEPT !.op = "resolved", !.kind = "initialize",
                                         !.how = "loadfail", !.ret = -1 ]
            /\ UNCHANGED isConnecting
    /\ UNCHANGED << isInitialized, websocket, isReconnecting, retryTimeoutId,
                    reconnectAttempts, timers, renders, stops >>
    /\ UNCHANGED instance

\* new HubConnectionBuilder()...build(), setupConnectionEventHandlers() and
\* the call of connection.start(), by the invocation with record r, with ts
\* the transports' states so far
buildAndStart(c, ts) ==
    LET n == NewTransport(c, ts)
    IN  [ conn |-> n,
          ts |-> [ ts EXCEPT ![n] = "Connecting" ],
          R |-> [ eh |-> eventHandlers, tm |-> [ tmethods EXCEPT ![n] = NoRegs ] ],
          rec |-> [ calls[c] EXCEPT !.pc = "start", !.t = n, !.starts = @ + 1 ] ]

\* a credentials test that asks for both fields to be missing
credentialsBothMissing(b) == ~b.url /\ ~b.token

\* if (!beaconData?.data?.connectionUrl || !beaconData?.data?.accessToken)
credentialsMissing(b) == ~b.url \/ ~b.token

\* initializeConnection: fetchBeaconAccess settles with b.  A throw lands in the
\* outer catch; missing connectionUrl or accessToken returns null; otherwise a
\* previous transport that is not Disconnected is stopped first, and then the
\* new transport is built and started
fetchBeaconAccessDone(c, b) ==
    /\ calls[c].pc = "fetch"
    /\ IF b.throws \/ credentialsMissing(b)
       THEN LET X == resolved(calls[c], 0, IF b.throws THEN "fetcherr" ELSE "nocreds",
                              connection, Regs)
            IN  /\ isConnecting' = FALSE
                /\ Commit(connection, tstate, X.R, [ calls EXCEPT ![c] = X.rec ],
                          stopCall)
                /\ event' = X.event
       ELSE /\ IF connection # 0 /\ state(tstate, connection) # "Disconnected"
               THEN Commit(connection, transportStop(tstate, connection), Regs,
                           [ calls EXCEPT ![c] = [ @ EXCEPT !.pc = "stopPrev",
                                                            !.t = connection ] ],
                           stopCall)
               ELSE /\ CanBuild(c, tstate)
                    /\ LET B == buildAndStart(c, tstate)
                       IN  Commit(B.conn, B.ts, B.R, [ calls EXCEPT ![c] = B.rec ],
                                  stopCall)
            /\ event' = NoEvent
            /\ UNCHANGED isConnecting
    /\ UNCHANGED << isInitialized, websocket, isReconnecting, retryTimeoutId,
                    reconnectAttempts, timers, renders, stops >>
    /\ UNCHANGED instance

\* initializeConnection: the previous transport's stop() settles (a rejection
\* is logged and swallowed); its close callback, if it runs, calls
\* retryConnection(); then the new transport is built and started
previousStopDone(c, ok, jitter) ==
    /\ calls[c].pc = "stopPrev"
    /\ LET t == calls[c].t
           fires == closeFires(tstate, t, ok)
           T == IF fires THEN retryConnection(Tim, jitter) ELSE Tim
           ts == stopSettled(tstate, t, ok)
       IN  /\ fires \/ jitter = 0
           /\ fires => CanSetTimeout(clearTimeout(timers, retryTimeoutId))
           /\ timers' = T.timers
           /\ retryTimeoutId' = T.rid
           /\ CanBuild(c, ts)
           /\ LET B == buildAndStart(c, ts)
              IN  Commit(B.conn, B.ts, B.R, [ calls EXCEPT ![c] = B.rec ], stopCall)
           /\ event' = IF fires
                        THEN [ NoEvent EXCEPT !.op = "scheduled", !.kind = "retry",
                                              !.delay = T.delay ]
                        ELSE NoEvent
    /\ UNCHANGED << isInitialized, websocket, isConnecting, isReconnecting,
                    reconnectAttempts, renders, stops >>
    /\ UNCHANGED instance

\* a retry test that lets one more retry through
canRetryInclusive(retryCount) == retryCount <= maxRetries

\* if (retryCount < maxRetries)
canRetry(retryCount) == retryCount < maxRetries

\* initializeConnection: connection.start() settles.  Resolved: isInitialized
\* is set, the guard cleared, this.connection returned.  Rejected: with
\* retryCount < maxRetries the guard is cleared and the retryDelay timeout
\* awaited; otherwise the error is rethrown into the outer catch, which clears
\* the guard and returns null.  A start() of a transport that is being
\* stopped, or was stopped, can only fail.
startDone(c, ok) ==
    /\ calls[c].pc = "start"
    /\ LET t == calls[c].t
           ts == [ tstate EXCEPT ![t] = IF @ # "Connecting" THEN @
                                        ELSE IF ok THEN "Connected"
                                        ELSE "Disconnected" ]
           X == IF ok
                THEN resolved(calls[c], connection, "started", connection, Regs)
                ELSE IF canRetry(calls[c].retryCount)
                THEN suspended([ calls[c] EXCEPT !.pc = "wait", !.t = 0 ], Regs)
                ELSE resolved(calls[c], 0, "exhausted", connection, Regs)
       IN  /\ ok => tstate[t] = "Connecting"
           /\ isInitialized' = (ok \/ isInitialized)
           /\ isConnecting' = FALSE
           /\ Commit(connection, ts, X.R, [ calls EXCEPT ![c] = X.rec ], stopCall)
           /\ event' = X.event
    /\ UNCHANGED << websocket, isReconnecting, retryTimeoutId, reconnectAttempts,
                    timers, renders, stops >>
    /\ UNCHANGED instance

\* initializeConnection: the retryDelay timeout elapses and the function calls
\* itself with retryCount + 1
retryDelayElapsed(c) ==
    /\ calls[c].pc = "wait"
    /\ LET X == initializeConnection(calls[c], calls[c].retryCount + 1)
       IN  /\ Commit(connection, tstate, X.R, [ calls EXCEPT ![c] = X.rec ], stopCall)
           /\ event' = X.event
           /\ isConnecting' = TRUE
    /\ UNCHANGED << isInitialized, websocket, isReconnecting, retryTimeoutId,
                    reconnectAttempts, timers, renders, stops >>
    /\ UNCHANGED instance

\* stop(), up to its await: the timer retryTimeoutId names is cancelled; with a
\* connection, every registry entry is taken off it, the registry is cleared
\* and connection.stop() is called; without one, stop() returns at once
stop ==
    /\ stopCall.pc = "idle"
    /\ stops < MaxStops
    /\ stops' = stops + 1
    /\ timers' = IF retryTimeoutId # 0 THEN clearTimeout(timers, retryTimeoutId)
                 ELSE timers
    /\ retryTimeoutId' = 0
    /\ IF connection # 0
       THEN /\ Commit(connection, transportStop(tstate, connection),
                      unregisterAll(Regs, connection), calls,
                      [ pc |-> "await", t |-> connection ])
            /\ event' = NoEvent
       ELSE /\ Commit(connection, tstate, Regs, calls, stopCall)
            /\ event' = [ NoEvent EXCEPT !.op = "stopped" ]
    /\ UNCHANGED << isInitialized, websocket, isConnecting, isReconnecting,
                    reconnectAttempts, renders >>
    /\ UNCHANGED instance

\* stop(), after its await: connection.stop() settles (a rejection is logged);
\* the transport's close callback, if it runs, calls retryConnection(); then
\* connection, isInitialized and isConnecting are reset
stopDone(ok, jitter) ==
    /\ stopCall.pc = "await"
    /\ LET t == stopCall.t
           fires == closeFires(tstate, t, ok)
           T == IF fires THEN retryConnection(Tim, jitter) ELSE Tim
       IN  /\ fires \/ jitter = 0
           /\ fires => CanSetTimeout(clearTimeout(timers, retryTimeoutId))
           /\ timers' = T.timers
           /\ retryTimeoutId' = T.rid
           /\ Commit(0, stopSettled(tstate, t, ok), Regs, calls,
                     [ pc |-> "idle", t |-> 0 ])
           /\ event' = [ NoEvent EXCEPT !.op = "stopped",
                                        !.kind = IF fires THEN "retry" ELSE "none",
                                        !.delay = T.delay ]
    /\ isInitialized' = FALSE
    /\ isConnecting' = FALSE
    /\ UNCHANGED << websocket, isReconnecting, reconnectAttempts, renders, stops >>
    /\ UNCHANGED instance

\* the transport loses its link and starts its own automatic reconnect;
\* the onreconnecting handler only logs
onreconnecting(t) ==
    /\ tstate[t] = "Connected"
    /\ Commit(connection, [ tstate EXCEPT ![t] = "Reconnecting" ], Regs, calls, stopCall)
    /\ event' = NoEvent
    /\ UNCHANGED << isInitialized, websocket, isConnecting, isReconnecting,
                    retryTimeoutId, reconnectAttempts, timers, renders, stops >>
    /\ UNCHANGED instance

\* the transport's automatic reconnect succeeds; the onreconnected handler
\* only logs
onreconnected(t) ==
    /\ tstate[t] = "Reconnecting"
    /\ Commit(connection, [ tstate EXCEPT ![t] = "Connected" ], Regs, calls, stopCall)
    /\ event' = NoEvent
    /\ UNCHANGED << isInitialized, websocket, isConnecting, isReconnecting,
                    retryTimeoutId, reconnectAttempts, timers, renders, stops >>
    /\ UNCHANGED instance

\* the transport closes for good (the server closed it, or its automatic
\* reconnect gave up); the onclose handler calls retryConnection()
onclose(t, jitter) ==
    /\ tstate[t] \in { "Connected", "Reconnecting" }
    /\ CanSetTimeout(clearTimeout(timers, retryTimeoutId))
    /\ LET T == retryConnection(Tim, jitter)
       IN  /\ timers' = T.timers
           /\ retryTimeoutId' = T.rid
           /\ event' = [ NoEvent EXCEPT !.op = "scheduled", !.kind = "retry",
                                        !.delay = T.delay ]
    /\ Commit(connection, [ tstate EXCEPT ![t] = "Disconnected" ], Regs, calls, stopCall)
    /\ UNCHANGED << isInitialized, websocket, isConnecting, isReconnecting,
                    reconnectAttempts, renders, stops >>
    /\ UNCHANGED instance

\* a delay without the Math.min
backoffDelayUncapped(attempts, jitter) ==
    baseReconnectDelay * (2 ^ (attempts - 1)) + jitter

\* Math.min(baseReconnectDelay * 2^(reconnectAttempts - 1) + jitter, maxReconnectDelay)
backoffDelay(attempts, jitter) ==
    LET d == baseReconnectDelay * (2 ^ (attempts - 1)) + jitter
    IN  IF d < maxReconnectDelay THEN d ELSE maxReconnectDelay

\* a ceiling test that lets one more attempt through
pastMaxAttempts(attempts) == attempts > maxReconnectAttempts

\* this.reconnectAttempts >= this.maxReconnectAttempts
outOfAttempts(attempts) == attempts >= maxReconnectAttempts

\* scheduleReconnect(), called on the manager: nothing when already
\* reconnecting or out of attempts; otherwise the guard is set, the counter
\* incremented and a timer scheduled (retryTimeoutId is overwritten, the timer
\* it named is not cancelled)
scheduleReconnect(jitter) ==
    /\ IF isReconnecting \/ outOfAttempts(reconnectAttempts)
       THEN /\ jitter = 0
            /\ event' = [ NoEvent EXCEPT !.op = "scheduled", !.kind = "reconnect",
                                         !.how = "skipped" ]
            /\ UNCHANGED << isReconnecting, reconnectAttempts, timers, retryTimeoutId >>
       ELSE /\ CanSetTimeout(timers)
            /\ isReconnecting' = TRUE
            /\ reconnectAttempts' = reconnectAttempts + 1
            /\ LET id == FreeTimer(timers)
               IN  /\ timers' = MapPut(timers, id, [ kind |-> "reconnect" ])
                   /\ retryTimeoutId' = id
            /\ event' = [ NoEvent EXCEPT !.op = "scheduled", !.kind = "reconnect",
                                         !.delay = backoffDelay(reconnectAttempts + 1,
                                                                jitter) ]
    /\ Commit(connection, tstate, Regs, calls, stopCall)
    /\ UNCHANGED << isInitialized, websocket, isConnecting, renders, stops >>
    /\ UNCHANGED instance

\* a pending timer fires.  The retryConnection callback calls
\* initializeConnection() when connection.state is Disconnected; the
\* scheduleReconnect callback calls it always (its catch block would run only
\* if initializeConnection threw, which its own catch prevents)
timerFires(id) ==
    /\ id \in DOMAIN timers
    /\ timers' = MapDel(timers, id)
    /\ IF timers[id].kind = "reconnect"
          \/ (connection # 0 /\ state(tstate, connection) = "Disconnected")
       THEN /\ HasFreeCall
            /\ LET X == initializeConnection([ FreeCall EXCEPT !.kind = timers[id].kind,
                                                                !.pc = "enter" ], 0)
               IN  /\ Commit(connection, tstate, X.R,
                             [ calls EXCEPT ![NextCall] = X.rec ], stopCall)
                   /\ event' = X.event
                   /\ isConnecting' = TRUE
       ELSE /\ Commit(connection, tstate, Regs, calls, stopCall)
            /\ event' = NoEvent
            /\ UNCHANGED isConnecting
    /\ UNCHANGED << isInitialized, websocket, isReconnecting, retryTimeoutId,
                    reconnectAttempts, renders, stops >>
    /\ UNCHANGED instance

\* what a callback does with a frame: the FormDataExtracted closure of
\* setupEventHandlers publishes one envelope; the others only log
publishes(callback, payload) ==
    IF callback[2] = "FormDataExtracted"
    THEN << [ type |-> "inProgressFormData", title |-> "rpRealTimeClientDev",
              callFormData |-> payload ] >>
    ELSE << >>

RECURSIVE published(_, _)
published(callbacks, payload) ==
    IF callbacks = << >> THEN << >>
    ELSE publishes(Head(callbacks), payload) \o published(Tail(callbacks), payload)

\* a connected transport receives a frame named eventName: it invokes, in
\* registration order, the callbacks registered on it under that name
receiveFrame(t, eventName, payload) ==
    /\ tstate[t] = "Connected"
    /\ event' = [ NoEvent EXCEPT !.op = "frame", !.name = eventName,
                                 !.payload = payload,
                                 !.invoked = tmethods[t][eventName],
                                 !.published = published(tmethods[t][eventName], payload) ]
    /\ Commit(connection, tstate, Regs, calls, stopCall)
    /\ UNCHANGED << isInitialized, websocket, isConnecting, isReconnecting,
                    retryTimeoutId, reconnectAttempts, timers, renders, stops >>
    /\ UNCHANGED instance

\* on(eventName, callback), called by any caller
onCall(eventName, callback) ==
    /\ IF onThrows
       THEN /\ Commit(connection, tstate, Regs, calls, stopCall)
            /\ event' = [ NoEvent EXCEPT !.op = "on", !.how = "threw",
                                         !.name = eventName,
                                         !.invoked = << callback >> ]
       ELSE /\ Commit(connection, tstate, on(Regs, connection, eventName, callback),
                      calls, stopCall)
            /\ event' = [ NoEvent EXCEPT !.op = "on", !.how = "done",
                                         !.name = eventName,
                                         !.invoked = << callback >> ]
    /\ UNCHANGED << isInitialized, websocket, isConnecting, isReconnecting,
                    retryTimeoutId, reconnectAttempts, timers, renders, stops >>
    /\ UNCHANGED instance

\* an off that takes the callback away under every name
offEveryName(R, conn, eventName, cbs) ==
    IF cbs # << >>
    THEN [ eh |-> [ e \in DOMAIN R.eh |-> Without(R.eh[e], cbs[1]) ],
           tm |-> [ R.tm EXCEPT ![conn] = [ e \in EventNames |-> Without(@[e], cbs[1]) ] ] ]
    ELSE [ eh |-> MapDel(R.eh, eventName),
           tm |-> [ R.tm EXCEPT ![conn][eventName] = << >> ] ]

\* off(eventName, callback) and off(eventName): cbs is << callback >> or << >>
off(R, conn, eventName, cbs) ==
    IF cbs # << >>
    THEN [ eh |-> IF eventName \in DOMAIN R.eh
                  THEN [ R.eh EXCEPT ![eventName] = Without(@, cbs[1]) ]
                  ELSE R.eh,
           tm |-> transportOff(R.tm, conn, eventName, cbs[1]) ]
    ELSE [ eh |-> MapDel(R.eh, eventName),
           tm |-> [ R.tm EXCEPT ![conn][eventName] = << >> ] ]

\* off(eventName, callback?), called by any caller: without a connection it
\* returns at once
offCall(eventName, cbs) ==
    /\ IF connection = 0
       THEN /\ Commit(connection, tstate, Regs, calls, stopCall)
            /\ event' = [ NoEvent EXCEPT !.op = "off", !.how = "returned",
                                         !.name = eventName, !.invoked = cbs ]
       ELSE /\ Commit(connection, tstate, off(Regs, connection, eventName, cbs),
                      calls, stopCall)
            /\ event' = [ NoEvent EXCEPT !.op = "off", !.how = "done",
                                         !.name = eventName, !.invoked = cbs ]
    /\ UNCHANGED << isInitialized, websocket, isConnecting, isReconnecting,
                    retryTimeoutId, reconnectAttempts, timers, renders, stops >>
    /\ UNCHANGED instance

\* the manager as the client component drives it: the component renders, the
\* environment settles what the manager awaits, transports change state and
\* timers fire
Next ==
    \/ renderedCallback
    \/ \E c \in Calls, ok \in BOOLEAN : loadScriptDone(c, ok)
    \/ \E c \in Calls, b \in BeaconResults : fetchBeaconAccessDone(c, b)
    \/ \E c \in Calls, ok \in BOOLEAN, j \in RetryJitters : previousStopDone(c, ok, j)
    \/ \E c \in Calls, ok \in BOOLEAN : startDone(c, ok)
    \/ \E c \in Calls : retryDelayElapsed(c)
    \/ \E t \in DOMAIN tstate : onreconnecting(t)
    \/ \E t \in DOMAIN tstate : onreconnected(t)
    \/ \E t \in DOMAIN tstate, j \in RetryJitters : onclose(t, j)
    \/ \E id \in TimerIds : timerFires(id)

Spec == Init /\ [][Next]_vars

\* the same, with the methods of the manager that the component never calls
\* (stop, scheduleReconnect) called at any time, and with frames arriving
NextApi ==
    \/ Next
    \/ stop
    \/ \E ok \in BOOLEAN, j \in RetryJitters : stopDone(ok, j)
    \/ \E j \in ReconnectJitters : scheduleReconnect(j)
    \/ \E t \in DOMAIN tstate, e \in EventNames, p \in Payloads : receiveFrame(t, e, p)

SpecApi == Init /\ [][NextApi]_vars

\* The registry on its own.  The manager is in one of three states the
\* component brings it to (each is a reachable state of Spec): newly
\* constructed; after the first render's initialize() has returned with every
\* start() failed; after the first render's initialize() has returned with the
\* transport started.
FirstRender ==
    setupEventHandlers([ eh |-> EmptyMap, tm |-> [ t \in Transports |-> NoRegs ] ], 1, 1)

AfterInitialize(ok) ==
    /\ instance = 1
    /\ connection = 1
    /\ isInitialized = ok
    /\ websocket = "null"
    /\ isConnecting = FALSE
    /\ isReconnecting = FALSE
    /\ retryTimeoutId = 0
    /\ reconnectAttempts = 0
    /\ eventHandlers = FirstRender.eh
    /\ tstate = [ t \in Transports |-> IF t # 1 THEN "Unbuilt"
                                        ELSE IF ok THEN "Connected" ELSE "Disconnected" ]
    /\ tmethods = FirstRender.tm
    /\ timers = [ i \in {} |-> 0 ]
    /\ calls = [ c \in Calls |-> FreeCall ]
    /\ stopCall = [ pc |-> "idle", t |-> 0 ]
    /\ stops = 0
    /\ renders = 1
    /\ event = [ NoEvent EXCEPT !.op = "resolved", !.kind = "initialize",
                                !.how = IF ok THEN "started" ELSE "exhausted",
                                !.starts = IF ok THEN 1 ELSE maxRetries + 1,
                                !.icRet = IF ok THEN 1 ELSE 0,
                                !.ret = 1 ]

InitRegistry == Init \/ AfterInitialize(FALSE) \/ AfterInitialize(TRUE)

NextRegistry ==
    \/ \E e \in CallerEvents, h \in Handlers : onCall(e, h)
    \/ \E e \in CallerEvents, h \in Handlers : offCall(e, << h >>)
    \/ \E e \in CallerEvents : offCall(e, << >>)
    \/ \E t \in DOMAIN tstate, e \in CallerEvents \cup { "FormDataExtracted" }, p \in Payloads :
           receiveFrame(t, e, p)

SpecRegistry == InitRegistry /\ [][NextRegistry]_vars

\* scheduleReconnect() on its own, as a function of the fields it reads:
\* reconnectAttempts is drawn from 0..maxReconnectAttempts and isReconnecting
\* from BOOLEAN (the manager's own code takes reconnectAttempts no further than
\* 1, because nothing it runs clears isReconnecting), and the timer callback
\* runs initializeConnection()
InitSchedule ==
    /\ instance = 1
    /\ connection = 0
    /\ isInitialized = FALSE
    /\ websocket = "null"
    /\ isConnecting = FALSE
    /\ isReconnecting \in BOOLEAN
    /\ retryTimeoutId = 0
    /\ reconnectAttempts \in 0..maxReconnectAttempts
    /\ eventHandlers = EmptyMap
    /\ tstate = [ t \in Transports |-> "Unbuilt" ]
    /\ tmethods = [ t \in Transports |-> NoRegs ]
    /\ timers = [ i \in {} |-> 0 ]
    /\ calls = [ c \in Calls |-> FreeCall ]
    /\ stopCall = [ pc |-> "idle", t |-> 0 ]
    /\ stops = 0
    /\ renders = 0
    /\ event = NoEvent

NextSchedule ==
    \/ \E j \in ReconnectJitters : scheduleReconnect(j)
    \/ \E id \in TimerIds : timerFires(id)
    \/ \E c \in Calls, b \in BeaconResults : fetchBeaconAccessDone(c, b)
    \/ \E c \in Calls, ok \in BOOLEAN : startDone(c, ok)
    \/ \E c \in Calls : retryDelayElapsed(c)

SpecSchedule == InitSchedule /\ [][NextSchedule]_vars

\* ------------------------------------------------------------- properties
\* the invocations that are past the isConnecting guard of
\* initializeConnection and have not returned
Attempting ==
    { c \in Calls : calls[c].pc \in { "fetch", "stopPrev", "start", "wait" } }

\* C1: no concurrent connect.  At every point of an invocation of
\* initializeConnection that has passed the guard, the wait between two failed
\* starts included, a second invocation returns without starting an attempt of
\* its own: never are two invocations past the guard at once.
C1_NoConcurrentConnect == Cardinality(Attempting) <= 1

\* C2 as stated: one top-level initializeConnection() calls start() at most
\* 3 times.
C2_AtMostThreeStarts ==
    /\ \A c \in Calls : calls[c].starts <= 3
    /\ event.op = "resolved" => event.starts <= 3

\* C2: bounded initial retry.  One top-level initializeConnection() calls
\* start() at most maxRetries + 1 = 4 times (the first start and 3 retries);
\* start number k + 1 is reached only through the retryDelay wait that follows
\* the failure of start number k, and after the failure of the last start the
\* invocation returns.
C2_BoundedInitialRetry ==
    /\ \A c \in Calls :
         /\ calls[c].starts <= maxRetries + 1
         /\ calls[c].retryCount <= maxRetries
         /\ calls[c].pc \in { "fetch", "stopPrev" } => calls[c].starts = calls[c].retryCount
         /\ calls[c].pc = "start" => calls[c].starts = calls[c].retryCount + 1
         /\ calls[c].pc = "wait" => /\ calls[c].starts = calls[c].retryCount + 1
                                    /\ calls[c].retryCount < maxRetries
    /\ event.op = "resolved" /\ event.how = "exhausted" => event.starts = maxRetries + 1
    /\ event.op = "resolved" => event.starts <= maxRetries + 1

\* an invocation has made its last start, which failed, and returned
C2_Witness ==
    /\ event.op = "resolved"
    /\ event.how = "exhausted"
    /\ event.starts = 4

\* C3: exhausting the retry budget surfaces a rejection.  When the last start
\* has failed, initializeConnection() rejects, and so does the initialize()
\* that called it (-1 stands for a rejection).
C3_ExhaustedRejects ==
    event.op = "resolved" /\ event.how = "exhausted" =>
        /\ event.icRet = -1
        /\ event.kind = "initialize" => event.ret = -1

\* C4: idempotent initialize.  An initialize() called when an earlier one has
\* established the connection (isInitialized is set, and no stop() has reset
\* it) returns this.connection, which is not null, at once: it loads no
\* script, enters no initializeConnection, and builds, starts or stops no
\* transport.
C4_IdempotentInitialize ==
    [][ (renders' = renders + 1 /\ isInitialized) =>
            /\ event'.op = "resolved"
            /\ event'.kind = "initialize"
            /\ event'.how = "already"
            /\ event'.ret = connection
            /\ connection # 0
            /\ UNCHANGED << connection, calls, tstate, isInitialized, isConnecting,
                            timers >> ]_vars

\* the second render's initialize() has returned the connection the first
\* one established
C4_Witness ==
    /\ renders = 2
    /\ event.op = "resolved"
    /\ event.how = "already"
    /\ event.ret = connection
    /\ connection # 0
    /\ tstate[connection] = "Connected"

\* a transport's close callbacks run in this step: a started transport closes
\* by itself, or its stop() resolves
Closes ==
    \E t \in Transports :
        \/ /\ tstate[t] \in { "Connected", "Reconnecting" }
           /\ tstate'[t] \in { "Disconnected", "Unbuilt" }
        \/ /\ tstate[t] = "Stopping"
           /\ tstate'[t] \notin { "Stopping", "Connected" }

C6_SinglePendingTimer == Cardinality(DOMAIN timers) <= 1

\* C7: stop() cancels reconnection from any state.  When stop() returns no
\* retry timer is pending; in particular none that a close callback scheduled
\* (those of kind "retry"), the close callback that runs while the transport
\* is being stopped included.
C7_StopCancelsReconnection ==
    event.op = "stopped" => \A id \in DOMAIN timers : timers[id].kind # "retry"

\* C8: stop clears everything.  Once stop() has completed, and until a later
\* initialize() succeeds (until then isInitialized stays false), eventHandlers
\* is empty, isConnected() is false (it reads websocket, which is null) and
\* on() fails with 'Connection not initialized'.
C8_StopClearsEverything ==
    (stops > 0 /\ stopCall.pc = "idle" /\ ~isInitialized) =>
        /\ eventHandlers = EmptyMap
        /\ websocket = "null"
        /\ onThrows

\* C9: event republish.  A FormDataExtracted frame that reaches the component
\* (some callback is registered under its name) results in exactly one
\* publish, of the envelope that carries the frame's payload, however many
\* times the component has rendered; a frame of any other name results in none.
C9_EventRepublish ==
    event.op = "frame" /\ event.invoked # << >> =>
        IF event.name = "FormDataExtracted"
        THEN event.published =
                 << [ type |-> "inProgressFormData", title |-> "rpRealTimeClientDev",
                      callFormData |-> event.payload ] >>
        ELSE event.published = << >>

\* C10: credentials unavailable.  When fetchBeaconAccess yields data without
\* connectionUrl or without accessToken, initializeConnection() returns null
\* (it does not throw), builds and starts no transport, schedules no timer and
\* leaves isConnecting cleared.
C10_CredentialsUnavailable ==
    [][ (\E c \in Calls, b \in BeaconResults :
            /\ ~b.throws
            /\ ~b.url \/ ~b.token
            /\ fetchBeaconAccessDone(c, b)) =>
            /\ event'.op = "resolved"
            /\ event'.how = "nocreds"
            /\ event'.icRet = 0
            /\ isConnecting' = FALSE
            /\ UNCHANGED << tstate, connection, timers, retryTimeoutId, isInitialized >>
            /\ Cardinality(Attempting') = Cardinality(Attempting) - 1 ]_vars

\* an invocation has returned null for want of credentials
C10_Witness ==
    /\ event.op = "resolved"
    /\ event.how = "nocreds"
    /\ event.icRet = 0
    /\ event.starts = 0
    /\ ~isConnecting
    /\ connection = 0
    /\ timers = << >>

\* C11: fail-fast before connection.  While no connection has been established
\* (isInitialized is false), the state in which a transport was built but every
\* start() failed included, on() and off() throw and leave the registry as it
\* is.
C11_FailFastBeforeConnection ==
    [][ (event'.op \in { "on", "off" } /\ ~isInitialized) =>
            /\ event'.how = "threw"
            /\ UNCHANGED << eventHandlers, tmethods >> ]_vars

\* the callbacks on() has registered under a name and off() has not removed,
\* in the order of their registration
Registered(eventName) ==
    IF eventName \in DOMAIN eventHandlers THEN eventHandlers[eventName] ELSE << >>

RegisteredIn(eh, eventName) ==
    IF eventName \in DOMAIN eh THEN eh[eventName] ELSE << >>

C14_ReconnectCeiling ==
    /\ [](reconnectAttempts <= maxReconnectAttempts)
    /\ [][ (reconnectAttempts >= maxReconnectAttempts /\ event'.op = "scheduled") =>
               /\ event'.how = "skipped"
               /\ UNCHANGED << connection, isInitialized, websocket, isConnecting,
                               isReconnecting, retryTimeoutId, reconnectAttempts,
                               eventHandlers, tstate, tmethods, timers, calls >> ]_vars

\* scheduleReconnect() was called at the ceiling, with isReconnecting clear, and
\* did nothing
C14_Witness ==
    /\ reconnectAttempts = maxReconnectAttempts
    /\ ~isReconnecting
    /\ event.op = "scheduled"
    /\ event.how = "skipped"
    /\ timers = << >>

\* a start() has just succeeded, or a transport's onreconnected handler has
\* just run
Connects ==
    \/ event'.op = "resolved" /\ event'.how = "started"
    \/ \E t \in Transports : tstate[t] = "Reconnecting" /\ tstate'[t] = "Connected"

\* C15: a successful (re)connection resets the backoff.  Whenever a start()
\* succeeds or the onreconnected handler runs, reconnectAttempts is 0
\* afterwards.
C15_SuccessResetsBackoff == [][ Connects => reconnectAttempts' = 0 ]_vars

\* a scheduleReconnect() has just computed a delay and set its timer
Scheduled ==
    /\ event.op = "scheduled"
    /\ event.kind = "reconnect"
    /\ event.how # "skipped"

\* C16: backoff growth and cap.  The delay a scheduleReconnect() computes
\* never exceeds maxReconnectDelay, and is at most the delay the next
\* invocation computes (at the incremented counter), whatever the jitter of
\* either invocation.
C16_BackoffGrowthAndCap ==
    Scheduled =>
        /\ event.delay <= maxReconnectDelay
        /\ \A j \in ReconnectJitters :
               event.delay <= backoffDelay(reconnectAttempts + 1, j)
        /\ \A a \in 1..(reconnectAttempts - 1) : \A j \in ReconnectJitters :
               backoffDelay(a, j) <= event.delay

\* the first invocation whose exponential term passes the cap
C16_Witness ==
    /\ Scheduled
    /\ reconnectAttempts = 6
    /\ event.delay = maxReconnectDelay

\* The component's behaviours with one more transport object than MaxTransports
\* for the manager to build: the state after construction is the same, and a
\* transport can be built while the previous one is not yet collected.
InitReplace ==
    /\ instance = 1
    /\ connection = 0
    /\ isInitialized = FALSE
    /\ websocket = "null"
    /\ isConnecting = FALSE
    /\ isReconnecting = FALSE
    /\ retryTimeoutId = 0
    /\ reconnectAttempts = 0
    /\ eventHandlers = EmptyMap
    /\ tstate = [ t \in 1..(MaxTransports + 1) |-> "Unbuilt" ]
    /\ tmethods = [ t \in 1..(MaxTransports + 1) |-> NoRegs ]
    /\ timers = [ i \in {} |-> 0 ]
    /\ calls = [ c \in Calls |-> FreeCall ]
    /\ stopCall = [ pc |-> "idle", t |-> 0 ]
    /\ stops = 0
    /\ renders = 0
    /\ event = NoEvent

SpecReplace == InitReplace /\ [][Next]_vars

\* the transports that are built and not Disconnected
Live == { t \in DOMAIN tstate : tstate[t] \notin { "Unbuilt", "Disconnected" } }

\* C17: at most one live transport.  In every reachable state at most one
\* transport is in a state other than Disconnected, also after the stop() of
\* the previous transport has failed.
C17_AtMostOneLiveTransport == Cardinality(Live) <= 1

\* ------------------------------------------------------------ singleton
\* a constructor that keeps every object it is run for
constructorAlways(inst, this) == [ ret |-> this, instance |-> this ]

\* constructor(), run for the new object this, its fields initialised: with
\* SignalRManager.instance set, that object is returned in place of this;
\* otherwise this is stored in SignalRManager.instance and returned
constructor(inst, this) ==
    IF inst # 0
    THEN [ ret |-> inst, instance |-> inst ]
    ELSE [ ret |-> this, instance |-> this ]

\* new SignalRManager(): the module's own `export default new SignalRManager()`
\* (the first), or a later one through a reference to the class.  The new
\* object is the next one allocated; its fields are those of a fresh manager
\* and no field of another object is written
construct ==
    /\ LET X == constructor(instance, instance + 1)
       IN  /\ instance' = X.instance
           /\ event' = [ NoEvent EXCEPT !.op = "constructed", !.ret = X.ret ]
    /\ UNCHANGED << connection, isInitialized, websocket, isConnecting,
                    isReconnecting, retryTimeoutId, reconnectAttempts,
                    eventHandlers, tstate, tmethods, timers, calls, stopCall,
                    stops, renders >>

\* before the module is evaluated: no manager object yet, the fields are
\* those the first object will be given
InitSingleton ==
    /\ instance = 0
    /\ connection = 0
    /\ isInitialized = FALSE
    /\ websocket = "null"
    /\ isConnecting = FALSE
    /\ isReconnecting = FALSE
    /\ retryTimeoutId = 0
    /\ reconnectAttempts = 0
    /\ eventHandlers = EmptyMap
    /\ tstate = [ t \in Transports |-> "Unbuilt" ]
    /\ tmethods = [ t \in Transports |-> NoRegs ]
    /\ timers = [ i \in {} |-> 0 ]
    /\ calls = [ c \in Calls |-> FreeCall ]
    /\ stopCall = [ pc |-> "idle", t |-> 0 ]
    /\ stops = 0
    /\ renders = 0
    /\ event = NoEvent

\* the component can act only once the module has exported its manager
Exported == instance # 0

NextSingleton ==
    \/ construct
    \/ Exported /\ renderedCallback
    \/ Exported /\ \E c \in Calls, ok \in BOOLEAN : loadScriptDone(c, ok)
    \/ Exported /\ \E c \in Calls, b \in BeaconResults : fetchBeaconAccessDone(c, b)
    \/ Exported /\ \E c \in Calls, ok \in BOOLEAN, j \in RetryJitters : previousStopDone(c, ok, j)
    \/ Exported /\ \E c \in Calls, ok \in BOOLEAN : startDone(c, ok)
    \/ Exported /\ \E c \in Calls : retryDelayElapsed(c)

SpecSingleton == InitSingleton /\ [][NextSingleton]_vars

\* C18: singleton.  Every construction returns the object constructed first
\* and writes no field of it, so there is one manager object, and what was
\* changed through one reference is what every other reference shows.
C18_Singleton ==
    /\ [](instance \in { 0, 1 })
    /\ [][ event'.op = "constructed" =>
               /\ event'.ret = 1
               /\ instance' = 1
               /\ UNCHANGED << connection, isInitialized, websocket, isConnecting,
                               isReconnecting, retryTimeoutId, reconnectAttempts,
                               eventHandlers, tstate, tmethods, timers, calls >> ]_vars

\* a construction after the manager was initialized through the first
\* reference: the reference returned is the first object, initialized
C18_Witness ==
    /\ event.op = "constructed"
    /\ event.ret = 1
    /\ isInitialized
    /\ connection # 0

\* ------------------------------------------------------------------ send
\* what a caller may pass to send(): a string, an object, and an object
\* JSON.stringify throws on (one that refers to itself)
Messages == { "text", "object", "cyclic" }

\* typeof data === 'string' ? data : JSON.stringify(data); "throws" when
\* JSON.stringify throws
serialise(data) ==
    IF data = "text" THEN "text"
    ELSE IF data = "object" THEN "{object}"
    ELSE "throws"

\* this.websocket && this.websocket.readyState === WebSocket.OPEN
isConnected == websocket # "null" /\ websocket = "OPEN"

\* send(data): with this.websocket open the serialised message is handed to
\* websocket.send and true returned, false when that throws; otherwise false
\* is returned.  No field is written
send(data) ==
    /\ event' = IF isConnected /\ serialise(data) # "throws"
                THEN [ NoEvent EXCEPT !.op = "send", !.how = "true", !.name = data,
                                      !.payload = serialise(data) ]
                ELSE [ NoEvent EXCEPT !.op = "send", !.how = "false", !.name = data ]
    /\ UNCHANGED << instance, connection, isInitialized, websocket, isConnecting,
                    isReconnecting, retryTimeoutId, reconnectAttempts,
                    eventHandlers, tstate, tmethods, timers, calls, stopCall,
                    stops, renders >>

\* sendMessage(message) of the client component: send() when
\* webSocketManager.isConnected(), false otherwise
sendMessage(message) ==
    IF isConnected
    THEN send(message)
    ELSE /\ event' = [ NoEvent EXCEPT !.op = "sendMessage", !.how = "false",
                                      !.name = message ]
         /\ UNCHANGED << instance, connection, isInitialized, websocket,
                         isConnecting, isReconnecting, retryTimeoutId,
                         reconnectAttempts, eventHandlers, tstate, tmethods,
                         timers, calls, stopCall, stops, renders >>

NextSend ==
    \/ renderedCallback
    \/ \E c \in Calls, ok \in BOOLEAN : loadScriptDone(c, ok)
    \/ \E c \in Calls, b \in BeaconResults : fetchBeaconAccessDone(c, b)
    \/ \E c \in Calls, ok \in BOOLEAN, j \in RetryJitters : previousStopDone(c, ok, j)
    \/ \E c \in Calls, ok \in BOOLEAN : startDone(c, ok)
    \/ \E c \in Calls : retryDelayElapsed(c)
    \/ \E d \in Messages : send(d)
    \/ \E d \in Messages : sendMessage(d)

SpecSend == Init /\ [][NextSend]_vars

\* the transport of the manager is open
TransportOpen == connection # 0 /\ tstate[connection] = "Connected"

\* C19: best-effort send.  A send() returns true, having transmitted the
\* serialised payload, exactly when the transport is open and the payload
\* can be serialised; otherwise it returns false and nothing is transmitted.
C19_BestEffortSend ==
    event.op = "send" =>
        IF TransportOpen /\ serialise(event.name) # "throws"
        THEN event.how = "true" /\ event.payload = serialise(event.name)
        ELSE event.how = "false" /\ event.payload = NoEvent.payload

\* a reconnection scheduled by scheduleReconnect() is under way: its timer is
\* pending, or its callback is running (suspended in initializeConnection)
Reconnecting ==
    \/ \E id \in DOMAIN timers : timers[id].kind = "reconnect"
    \/ \E c \in Calls : calls[c].kind = "reconnect"

\* C20: guard release on all exit paths.  With no invocation of
\* initializeConnection past the guard, isConnecting is false; with no
\* reconnect timer pending and no reconnect callback running, isReconnecting
\* is false.
C20_GuardsReleased ==
    /\ Attempting = {} => ~isConnecting
    /\ ~Reconnecting => ~isReconnecting

\* the initializeConnection() call of a scheduleReconnect() timer callback
\* has just returned without a started connection
ReconnectFailed ==
    /\ event'.op = "resolved"
    /\ event'.kind = "reconnect"
    /\ event'.how \in { "exhausted", "fetcherr", "nocreds" }

\* C21: chained retry.  When the initializeConnection() call of a reconnect
\* timer callback fails, with attempts left, the callback clears
\* isReconnecting and scheduleReconnect() runs again: the counter is
\* incremented and a new reconnect timer is pending afterwards.
C21_ChainedRetry ==
    [][ (ReconnectFailed /\ reconnectAttempts < maxReconnectAttempts) =>
            /\ reconnectAttempts' = reconnectAttempts + 1
            /\ \E id \in DOMAIN timers' : timers'[id].kind = "reconnect" ]_vars

\* ------------------------------------------------------------ reconnection
\* something is due on the event loop: an invocation is suspended or a timer
\* is set
Pending ==
    \/ \E c \in Calls : calls[c].kind # "free"
    \/ timers # << >>

\* the manager has a started transport
Started == connection # 0 /\ tstate[connection] = "Connected"

\* the initialized manager has lost its transport: it is closed, or it is a
\* replacement whose start() failed
Lost == isInitialized /\ connection # 0 /\ tstate[connection] = "Disconnected"

\* C22: eventual reconnection.  While the initialized manager is without a
\* started transport after a close, with reconnect attempts left, a
\* reconnection is under way: a timer is set or an invocation is in flight.
\* (With nothing due the manager does nothing more by itself, whatever the
\* CredentialProvider and start() would answer.)
C22_EventualReconnection ==
    (Lost /\ reconnectAttempts < maxReconnectAttempts) => Pending

\* the CredentialProvider call of invocation c has just thrown, with retries
\* left
FetchThrew(c) ==
    /\ calls[c].pc = "fetch"
    /\ calls[c].retryCount < maxRetries
    /\ calls'[c].pc # "fetch"
    /\ event'.how = "fetcherr"

\* C23: credential-fetch failures are retried automatically.  When
\* fetchBeaconAccess() throws with the retry budget not exhausted, the
\* invocation does not return: it waits and fetches again by itself.
C23_FetchFailureRetried ==
    [][ \A c \in Calls : FetchThrew(c) => calls'[c].pc \in { "wait", "fetch" } ]_vars

\* -------------------------------------------------------------- observers
\* getConnectionState(): 'Disconnected' without this.websocket, otherwise the
\* name of its readyState
getConnectionState ==
    IF websocket = "null" THEN "Disconnected"
    ELSE IF websocket = "CONNECTING" THEN "Connecting"
    ELSE IF websocket = "OPEN" THEN "Connected"
    ELSE IF websocket = "CLOSING" THEN "Closing"
    ELSE IF websocket = "CLOSED" THEN "Disconnected"
    ELSE "Unknown"

\* a caller reads isConnected() and getConnectionState(); no field is written
observe ==
    /\ event' = [ NoEvent EXCEPT !.op = "observed",
                                 !.how = getConnectionState,
                                 !.name = IF isConnected THEN "true" ELSE "false" ]
    /\ UNCHANGED << instance, connection, isInitialized, websocket, isConnecting,
                    isReconnecting, retryTimeoutId, reconnectAttempts,
                    eventHandlers, tstate, tmethods, timers, calls, stopCall,
                    stops, renders >>

NextObserve ==
    \/ renderedCallback
    \/ \E c \in Calls, ok \in BOOLEAN : loadScriptDone(c, ok)
    \/ \E c \in Calls, b \in BeaconResults : fetchBeaconAccessDone(c, b)
    \/ \E c \in Calls, ok \in BOOLEAN, j \in RetryJitters : previousStopDone(c, ok, j)
    \/ \E c \in Calls, ok \in BOOLEAN : startDone(c, ok)
    \/ \E c \in Calls : retryDelayElapsed(c)
    \/ \E t \in DOMAIN tstate, j \in RetryJitters : onclose(t, j)
    \/ \E id \in TimerIds : timerFires(id)
    \/ observe

SpecObserve == Init /\ [][NextObserve]_vars

\* C24: observers follow the transport.  What isConnected() and
\* getConnectionState() return is true and 'Connected' exactly when the
\* transport of the manager is started.
C24_ObserversFollowTransport ==
    event.op = "observed" =>
        /\ (event.name = "true") <=> Started
        /\ (event.how = "Connected") <=> Started

\* C25: stop() resets every lifecycle flag.  When a stop() completes,
\* whether a transport existed or not, connection is null, isInitialized,
\* isConnecting and isReconnecting are false and reconnectAttempts is 0.
C25_StopResetsFlags ==
    event.op = "stopped" =>
        /\ connection = 0
        /\ ~isInitialized
        /\ ~isConnecting
        /\ ~isReconnecting
        /\ reconnectAttempts = 0

\* C26: registrations survive a manager-level reconnection.  In every state
\* with a connection, the callbacks registered on the current transport under
\* each event name are those the registry holds under it.
C26_RegistrationsSurvive ==
    connection # 0 =>
        \A e \in EventNames : tmethods[connection][e] = Registered(e)

\* ------------------------------------------------------ stop() in flight
\* the component's behaviours with stop() called on the manager
NextStop ==
    \/ Next
    \/ stop
    \/ \E ok \in BOOLEAN, j \in RetryJitters : stopDone(ok, j)

SpecStop == Init /\ [][NextStop]_vars

\* stop() has returned and no initialize() is in flight: an invocation of
\* initializeConnection() that is suspended now was made by a timer callback
\* before stop() was called
StoppedInFlight ==
    /\ stops > 0
    /\ stopCall.pc = "idle"
    /\ connection = 0
    /\ \A c \in Calls : calls[c].kind # "initialize"
    /\ \E c \in Calls : calls[c].pc \in { "fetch", "start", "wait" }

\* C27: stop() ends an in-flight attempt.  After a stop() that was called
\* while an invocation of initializeConnection() was suspended has returned,
\* no step but a new initialize() makes connection non-null.
C27_StopEndsAttempt ==
    [][ (StoppedInFlight /\ \A c \in Calls : calls'[c].kind # "initialize") =>
            connection' = 0 ]_vars

\* C28: in every state, isInitialized implies that connection is not null and
\* is a transport whose start() has settled (one that is still being started,
\* or was stopped while being started, has not succeeded).
C28_InitializedMeansStarted ==
    isInitialized =>
        /\ connection # 0
        /\ tstate[connection] \notin { "Unbuilt", "Connecting", "StoppingStart" }

\* C29: initialize() resolves to a connection only if that transport has
\* been started.  An initialize() that returns a transport returns it from a
\* successful start() of its own or of an earlier initialize(), never from
\* behind the guard, after missing credentials or after the last failed
\* start(); and the transport it returns is not one still being started.
C29_InitializeReturnsStarted ==
    (event.op = "resolved" /\ event.kind = "initialize" /\ event.ret > 0) =>
        /\ event.how \in { "started", "already" }
        /\ tstate[event.ret] \notin { "Unbuilt", "Connecting", "StoppingStart" }

\* -------------------------------------------------------------- teardown
\* disconnectedCallback, from its i-th off(name) on
RECURSIVE teardownFrom(_, _, _)
teardownFrom(R, conn, i) ==
    IF i > Len(TeardownEvents) THEN R
    ELSE teardownFrom(off(R, conn, TeardownEvents[i], << >>), conn, i + 1)

\* disconnectedCallback of the client component: off(name) for each name of
\* TeardownEvents; without a connection every off() returns at once
disconnectedCallback ==
    /\ Commit(connection, tstate,
              IF connection = 0 THEN Regs ELSE teardownFrom(Regs, connection, 1),
              calls, stopCall)
    /\ event' = [ NoEvent EXCEPT !.op = "disconnected" ]
    /\ UNCHANGED << isInitialized, websocket, isConnecting, isReconnecting,
                    retryTimeoutId, reconnectAttempts, timers, renders, stops >>
    /\ UNCHANGED instance

NextTeardown ==
    \/ Next
    \/ disconnectedCallback
    \/ \E t \in DOMAIN tstate, p \in Payloads : receiveFrame(t, "FormDataExtracted", p)

SpecTeardown == Init /\ [][NextTeardown]_vars

\* the callbacks among cbs that a setupEventHandlers of the component made
OfComponent(cbs) == { i \in 1..Len(cbs) : cbs[i][1] > 0 }

\* C30: client teardown is complete.  When disconnectedCallback has run, no
\* callback registered by the component's setupEventHandlers is left in the
\* registry or, with a connection, on the current transport, under any name.
C30_TeardownComplete ==
    event.op = "disconnected" =>
        \A e \in EventNames :
            /\ OfComponent(Registered(e)) = {}
            /\ connection # 0 => OfComponent(tmethods[connection][e]) = {}

====
